---- MODULE Spec2Model ----
(***************************************************************************)
(* Task / TaskManager registration and job configuration protocol of       *)
(* cabbage (src/cabbage/tasks.py), with the JobStore and Job collaborators *)
(* it calls.                                                               *)
(*                                                                         *)
(* Python values are encoded as follows.                                   *)
(*   Optional[X]   None is {} and a present value v is {v}                 *)
(*   str           a TLA+ string                                           *)
(*   dict          a function whose domain is the set of keys              *)
(*   datetime      a whole number of hours since an epoch                  *)
(*   exception     the name of its class                                   *)
(***************************************************************************)
EXTENDS Integers, Sequences, FiniteSets, TLC

\* ------------------------------------------------------------- bounds ----
\* Total number of operations started over a run.
MaxCalls == 2
\* In the runs where registrations go on for ever: how many times the store
\* fails to provision one queue before it stops failing.
MaxFails == 1

\* ------------------------------------------------------ Python values ----
None == {}
Some(v) == {v}
Val(o) == CHOOSE v \in o : TRUE

EmptyDict == [k \in {} |-> 0]
\* dict(a, **b): the keys of both, b's value where both have the key.
DictUpdate(a, b) ==
    [k \in (DOMAIN a) \cup (DOMAIN b) |-> IF k \in DOMAIN b THEN b[k] ELSE a[k]]

\* bool(x) of an Optional[str]: None and "" are falsy.
TruthyStr(o) == o # None /\ Val(o) # ""
\* bool(x) of an Optional[dict]: None and {} are falsy.
TruthyDict(o) == o # None /\ DOMAIN Val(o) # {}
\* bool(x) of an Optional[datetime]: datetime defines no __bool__ or __len__,
\* so every datetime is truthy and only None is falsy.
TruthyDatetime(o) == o # None

\* ------------------------------------------------------- input values ----
Threads == {"t1", "t2"}
SeqThreads == {"t1"}

\* Callables; FuncName is func.__name__.
Funcs == {"task_func", "wrapped"}
FuncName(f) == f
Queues == {"default", "queue"}
NameArgs == {None, Some(""), Some("bla")}
LockArgs == {None, Some(""), Some("sher")}
KwargsValues == {EmptyDict, [k \in {"c"} |-> 3]}
KwargsArgs == {None, Some(EmptyDict), Some([k \in {"yay"} |-> 1])}
\* The readings of the UTC clock, in hours.
Times == {0, 1}
ScheduleAtArgs == {None, Some(0)}
\* schedule_in is the keyword arguments of pendulum's add(): {} or {"hours": 2}.
ScheduleInArgs == {None, Some(EmptyDict), Some([k \in {"hours"} |-> 2])}

\* The one store the manager is built with.
TheStore == "job_store"

\* ---------------------------------------------------------------- Task ----
\* A constructor that takes the function's name whatever name it is given.
TaskInit_IgnoresName(func, queue, name) ==
    [func |-> func, queue |-> queue, name |-> FuncName(func)]

\* Task.__init__: name or func.__name__.
TaskInit(func, queue, name) ==
    [func |-> func,
     queue |-> queue,
     name |-> IF TruthyStr(name) THEN Val(name) ELSE FuncName(func)]

AllTasks == {TaskInit(f, q, n) : f \in Funcs, q \in Queues, n \in NameArgs}

\* str(uuid.uuid4()): the n-th token drawn from the generator; uuid4 tokens are
\* 36 characters long and no two draws are equal.
Uuid4(n) == "uuid4-" \o ToString(n)

\* pendulum.now("UTC").add(**schedule_in)
PendulumAdd(clock, schedule_in) ==
    clock + (IF "hours" \in DOMAIN schedule_in THEN schedule_in["hours"] ELSE 0)

InvalidConfiguration == "ValueError"

\* A guard that tests both arguments for truth: an empty schedule_in passes.
ConfigureRejects_BothTruthy(schedule_at, schedule_in) ==
    TruthyDatetime(schedule_at) /\ TruthyDict(schedule_in)

\* Task.configure, the guard of its raise: schedule_at is tested for truth,
\* schedule_in for presence.
ConfigureRejects(schedule_at, schedule_in) ==
    TruthyDatetime(schedule_at) /\ schedule_in # None

\* A resolution that tests schedule_in for truth: {} counts as absent.
ConfigureScheduledAt_EmptyIsAbsent(schedule_at, schedule_in, clock) ==
    IF TruthyDict(schedule_in)
    THEN Some(PendulumAdd(clock, Val(schedule_in)))
    ELSE schedule_at

\* Task.configure, schedule resolution.
ConfigureScheduledAt(schedule_at, schedule_in, clock) ==
    IF schedule_in # None
    THEN Some(PendulumAdd(clock, Val(schedule_in)))
    ELSE schedule_at

\* A default taken only when lock is None: the empty string is kept.
ConfigureLock_OnlyNone(lock, uuidn) ==
    IF lock # None
    THEN [lock |-> Val(lock), drew |-> FALSE]
    ELSE [lock |-> Uuid4(uuidn), drew |-> TRUE]

\* A lock that is always generated: the caller's lock is ignored.
ConfigureLock_AlwaysFresh(lock, uuidn) ==
    [lock |-> Uuid4(uuidn), drew |-> TRUE]

\* A default computed once, when configure is defined, and shared by all calls.
ConfigureLock_SharedDefault(lock, uuidn) ==
    IF TruthyStr(lock)
    THEN [lock |-> Val(lock), drew |-> FALSE]
    ELSE [lock |-> Uuid4(0), drew |-> FALSE]

\* Task.configure: lock or str(uuid.uuid4()). uuid4 is called only when lock is
\* falsy; drew says whether it was.
ConfigureLock(lock, uuidn) ==
    IF TruthyStr(lock)
    THEN [lock |-> Val(lock), drew |-> FALSE]
    ELSE [lock |-> Uuid4(uuidn), drew |-> TRUE]

\* Task.configure: task_kwargs or {}.
ConfigureKwargs(task_kwargs) ==
    IF TruthyDict(task_kwargs) THEN Val(task_kwargs) ELSE EmptyDict

\* A configure that builds every Job for the queue "default".
Task_configure_DefaultQueue(task, lock, task_kwargs, schedule_at, schedule_in, clock, uuidn) ==
    IF ConfigureRejects(schedule_at, schedule_in)
    THEN [kind |-> "raised", exc |-> InvalidConfiguration, drew |-> FALSE]
    ELSE [kind |-> "job",
          drew |-> ConfigureLock(lock, uuidn).drew,
          job |-> [id |-> None,
                   lock |-> ConfigureLock(lock, uuidn).lock,
                   task_name |-> task.name,
                   queue |-> "default",
                   task_kwargs |-> ConfigureKwargs(task_kwargs),
                   scheduled_at |->
                       ConfigureScheduledAt(schedule_at, schedule_in, clock),
                   job_store |-> TheStore]]

\* Task.configure: the exception raised or the Job built, and whether a token
\* was drawn from uuid4.
Task_configure(task, lock, task_kwargs, schedule_at, schedule_in, clock, uuidn) ==
    IF ConfigureRejects(schedule_at, schedule_in)
    THEN [kind |-> "raised", exc |-> InvalidConfiguration, drew |-> FALSE]
    ELSE [kind |-> "job",
          drew |-> ConfigureLock(lock, uuidn).drew,
          job |-> [id |-> None,
                   lock |-> ConfigureLock(lock, uuidn).lock,
                   task_name |-> task.name,
                   queue |-> task.queue,
                   task_kwargs |-> ConfigureKwargs(task_kwargs),
                   scheduled_at |->
                       ConfigureScheduledAt(schedule_at, schedule_in, clock),
                   job_store |-> TheStore]]

\* ------------------------------------------------------------ JobStore ----
\* The store is [jobs |-> queue name -> sequence of stored jobs,
\*               counter |-> the next identifier].
StoreError == "StoreError"
DuplicateLockError == "DuplicateLockError"

\* JobStore.register_queue: idempotent, the queue exists afterwards.
JobStore_register_queue(st, queue) ==
    IF queue \in DOMAIN st.jobs
    THEN st
    ELSE [st EXCEPT !.jobs =
             [q \in (DOMAIN st.jobs) \cup {queue} |->
                 IF q = queue THEN <<>> ELSE st.jobs[q]]]

\* What the backend does to a defer call: nothing (None), a failure of its own
\* (StoreError), or a lock held by a job another client of the store submitted.
DeferFailures == {None, Some(StoreError), Some(DuplicateLockError)}

\* JobStore.defer: the new store, the number of calls the store received (one),
\* the job it was given and what the call returned or raised.
JobStore_defer(st, job, fail) ==
    IF fail # None
    THEN [st |-> st, calls |-> 1, job |-> job,
          res |-> [kind |-> "raised", exc |-> Val(fail)]]
    ELSE IF job.queue \notin DOMAIN st.jobs
    THEN [st |-> st, calls |-> 1, job |-> job,
          res |-> [kind |-> "raised", exc |-> StoreError]]
    ELSE IF \E i \in 1..Len(st.jobs[job.queue]) :
                st.jobs[job.queue][i].lock = job.lock
    THEN [st |-> st, calls |-> 1, job |-> job,
          res |-> [kind |-> "raised", exc |-> DuplicateLockError]]
    ELSE [st |-> [jobs |-> [st.jobs EXCEPT ![job.queue] =
                               Append(@, [job EXCEPT !.id = Some(st.counter)])],
                  counter |-> st.counter + 1],
          calls |-> 1, job |-> job,
          res |-> [kind |-> "id", id |-> st.counter]]

\* ----------------------------------------------------------------- Job ----
\* Job.defer(**task_kwargs): the keyword arguments are merged into the job's
\* task_kwargs and the job is submitted to its store.
Job_defer(job, task_kwargs, st, fail) ==
    JobStore_defer(st, [job EXCEPT !.task_kwargs = DictUpdate(@, task_kwargs)], fail)

\* A defer that does not pass its keyword arguments on.
Task_defer_DropsKwargs(task, task_kwargs, clock, uuidn, st, fail) ==
    Job_defer(Task_configure(task, None, None, None, None, clock, uuidn).job,
              EmptyDict, st, fail)

\* A defer that submits again when the first submission raises.
Task_defer_Retries(task, task_kwargs, clock, uuidn, st, fail) ==
    LET job == Task_configure(task, None, None, None, None, clock, uuidn).job
        first == Job_defer(job, task_kwargs, st, fail)
        second == Job_defer(job, task_kwargs, st, None)
    IN  IF first.res.kind = "raised"
        THEN [second EXCEPT !.calls = first.calls + second.calls]
        ELSE first

\* Task.defer: self.configure().defer(**task_kwargs)
Task_defer(task, task_kwargs, clock, uuidn, st, fail) ==
    Job_defer(Task_configure(task, None, None, None, None, clock, uuidn).job,
              task_kwargs, st, fail)

\* --------------------------------------------------------- TaskManager ----
\* TaskManager.task: queue defaults to "default" when the argument is omitted.
TaskManager_task(func, queue, name) ==
    TaskInit(func, IF queue = None THEN "default" ELSE Val(queue), name)

\* TaskManager.task(queue=, name=) without a function: the closure _wrap, which
\* holds the queue (the default when omitted) and the name it was called with.
TaskManager_task_capture(queue, name) ==
    [queue |-> IF queue = None THEN "default" ELSE Val(queue), name |-> name]

\* A _wrap that builds the Task without the captured name.
Wrap_LosesName(closure, func) == TaskInit(func, closure.queue, None)

\* _wrap(func): the Task it builds and registers.
Wrap(closure, func) == TaskInit(func, closure.queue, closure.name)

\* What a work unit does when it is invoked: it returns a value or raises.
WorkOutcomes == {[kind |-> "value", value |-> "foo"],
                 [kind |-> "raised", exc |-> "WorkError"]}

\* A __call__ that invokes the work unit and returns None, as its annotation
\* says.
Task_call_ReturnsNone(task, kwargs, outcome) ==
    [invoked |-> <<[func |-> task.func, kwargs |-> kwargs]>>,
     res |-> [kind |-> "value", value |-> "None"]]

\* Task.__call__: return self.func(**kwargs). The invocations made of the work
\* unit, and what the caller gets.
Task_call(task, kwargs, outcome) ==
    [invoked |-> <<[func |-> task.func, kwargs |-> kwargs]>>, res |-> outcome]

\* An insertion that keeps the entry a key already has.
DictSet_KeepsFirst(d, key, value) ==
    [k \in (DOMAIN d) \cup {key} |-> IF k \in DOMAIN d THEN d[k] ELSE value]

\* self.tasks[key] = value
DictSet(d, key, value) ==
    [k \in (DOMAIN d) \cup {key} |-> IF k = key THEN value ELSE d[k]]

\* What register's caller gets back: TaskManager.task returns the Task,
\* register returns None.
Returned(c) ==
    IF c.op = "task" THEN [kind |-> "task", task |-> c.task] ELSE [kind |-> "none"]
Raised(e) == [kind |-> "raised", exc |-> e]

\* --------------------------------------------------------------- state ----
VARIABLES
    tasks,         \* TaskManager.tasks
    queues,        \* TaskManager.queues
    store,         \* the JobStore: its jobs per queue and its id counter
    uuidCounter,   \* how many tokens uuid4 has produced
    now,           \* the UTC clock, in hours
    pc,            \* per thread: where it is in register
    call,          \* per thread: the register or task call it runs or ran last
    result,        \* per thread: what that call returned or raised
    last,          \* the latest configure or defer call: arguments and outcome
    ncalls,        \* operations started
    rqCalls,       \* per queue name: register_queue calls the store received
    rqFails,       \* per queue name: how many of them failed
    deferCalls,    \* defer calls the store received
    deferOks,      \* how many of them returned an id
    omittedLocks,  \* locks of the Jobs built by configure calls that omitted lock
    lastReg        \* per task name: the task of the latest register call

vars == <<tasks, queues, store, uuidCounter, now, pc, call, result, last, ncalls,
          rqCalls, rqFails, deferCalls, deferOks, omittedLocks, lastReg>>

\* The queue argument of TaskManager.task: omitted, or a queue name.
QueueArgs == {None, Some("queue")}
\* The functions task() is called with in the model.
TaskFuncs == {"task_func"}

\* The tasks register, configure and defer are called with in the model.
RegisterTasks == {TaskInit(f, q, None) : f \in Funcs, q \in Queues}
ConfigureTasks == {TaskInit("task_func", "queue", None)}
DeferTasks == {TaskInit("task_func", "queue", None),
               TaskInit("wrapped", "default", Some("bla"))}

\* The queues the store holds before the manager is built: none, or "queue",
\* made by a direct register_queue call on the store.
StoreQueues == {{}, {"queue"}}

InitFor(T) ==
    /\ tasks = EmptyDict
    /\ queues = {}
    /\ store \in {[jobs |-> [q \in Q |-> <<>>], counter |-> 0] : Q \in StoreQueues}
    /\ uuidCounter = 0
    /\ now = 0
    /\ pc = [t \in T |-> "idle"]
    /\ call = [t \in T |-> [op |-> "none"]]
    /\ result = [t \in T |-> [kind |-> "unset"]]
    /\ last = [op |-> "none", res |-> [kind |-> "unset"]]
    /\ ncalls = 0
    /\ rqCalls = [q \in Queues |-> 0]
    /\ rqFails = [q \in Queues |-> 0]
    /\ deferCalls = 0
    /\ deferOks = 0
    /\ omittedLocks = <<>>
    /\ lastReg = EmptyDict

\* The clock advances.
Tick ==
    /\ now' \in Times
    /\ now' > now
    /\ UNCHANGED <<tasks, queues, store, uuidCounter, pc, call, result, last,
                   ncalls, rqCalls, rqFails, deferCalls, deferOks, omittedLocks,
                   lastReg>>

\* ------------------------------------------------- TaskManager.register ----
\* register(task), first statement: self.tasks[task.name] = task
\* c is the record of the call: its operation, its arguments and c.task, the
\* task being registered.
RegisterWrite(t, c) ==
    /\ pc[t] = "idle"
    /\ call' = [call EXCEPT ![t] = c]
    /\ lastReg' = [n \in (DOMAIN lastReg) \cup {c.task.name} |->
                      IF n = c.task.name THEN c.task ELSE lastReg[n]]
    /\ tasks' = DictSet(tasks, c.task.name, c.task)
    /\ pc' = [pc EXCEPT ![t] = "check"]
    /\ result' = [result EXCEPT ![t] = [kind |-> "unset"]]
    /\ UNCHANGED <<queues, store, uuidCounter, now, last,
                   rqCalls, rqFails, deferCalls, deferOks, omittedLocks>>

\* manager.register(task) is called.
RegisterCall(t) ==
    /\ ncalls < MaxCalls
    /\ ncalls' = ncalls + 1
    /\ \E task \in RegisterTasks :
          RegisterWrite(t, [op |-> "register", task |-> task])

\* manager.task(func, queue=, name=) is called: _wrap builds the Task and
\* registers it.
TaskCall(t) ==
    /\ ncalls < MaxCalls
    /\ ncalls' = ncalls + 1
    /\ \E f \in TaskFuncs, q \in QueueArgs, n \in NameArgs :
          RegisterWrite(t, [op |-> "task", form |-> "direct", func |-> f,
                            queue |-> q, name |-> n,
                            task |-> TaskManager_task(f, q, n)])

\* manager.task(queue=, name=) is called without a function: it returns _wrap
\* and does nothing else.
TaskCapture(t) ==
    /\ pc[t] = "idle"
    /\ ncalls < MaxCalls
    /\ ncalls' = ncalls + 1
    /\ \E q \in QueueArgs, n \in NameArgs :
          /\ call' = [call EXCEPT ![t] =
                        [op |-> "task_capture", queue |-> q, name |-> n]]
          /\ result' = [result EXCEPT ![t] =
                          [kind |-> "wrap",
                           closure |-> TaskManager_task_capture(q, n)]]
    /\ UNCHANGED <<tasks, queues, store, uuidCounter, now, pc, last,
                   rqCalls, rqFails, deferCalls, deferOks, omittedLocks, lastReg>>

\* The _wrap a thread got from task(queue=, name=) is called with a function.
WrapCall(t) ==
    /\ result[t].kind = "wrap"
    /\ ncalls < MaxCalls
    /\ ncalls' = ncalls + 1
    /\ \E f \in TaskFuncs :
          RegisterWrite(t, [op |-> "task", form |-> "two-step", func |-> f,
                            queue |-> call[t].queue, name |-> call[t].name,
                            task |-> Wrap(result[t].closure, f)])

\* A register that provisions without looking at self.queues.
RegisterCheck_AlwaysProvisions(t) ==
    /\ pc[t] = "check"
    /\ pc' = [pc EXCEPT ![t] = "provision"]
    /\ UNCHANGED <<tasks, queues, store, uuidCounter, now, call, result, last,
                   ncalls, rqCalls, rqFails, deferCalls, deferOks, omittedLocks,
                   lastReg>>

\* A register that adds the queue to self.queues before it calls the store.
RegisterCheck_MarksKnownFirst(t) ==
    /\ pc[t] = "check"
    /\ IF call[t].task.queue \notin queues
       THEN /\ pc' = [pc EXCEPT ![t] = "provision"]
            /\ queues' = queues \cup {call[t].task.queue}
            /\ UNCHANGED result
       ELSE /\ pc' = [pc EXCEPT ![t] = "idle"]
            /\ result' = [result EXCEPT ![t] = Returned(call[t])]
            /\ UNCHANGED queues
    /\ UNCHANGED <<tasks, store, uuidCounter, now, call, last, ncalls,
                   rqCalls, rqFails, deferCalls, deferOks, omittedLocks, lastReg>>

\* if task.queue not in self.queues: a known queue ends the call.
RegisterCheck(t) ==
    /\ pc[t] = "check"
    /\ IF call[t].task.queue \notin queues
       THEN /\ pc' = [pc EXCEPT ![t] = "provision"]
            /\ UNCHANGED result
       ELSE /\ pc' = [pc EXCEPT ![t] = "idle"]
            /\ result' = [result EXCEPT ![t] = Returned(call[t])]
    /\ UNCHANGED <<tasks, queues, store, uuidCounter, now, call, last, ncalls,
                   rqCalls, rqFails, deferCalls, deferOks, omittedLocks, lastReg>>

\* A register that catches the store's error and carries on.
RegisterProvision_SwallowsError(t) ==
    /\ pc[t] = "provision"
    /\ rqCalls' = [rqCalls EXCEPT ![call[t].task.queue] = @ + 1]
    /\ \E fail \in BOOLEAN :
          IF fail
          THEN /\ rqFails' = [rqFails EXCEPT ![call[t].task.queue] = @ + 1]
               /\ UNCHANGED store
          ELSE /\ store' = JobStore_register_queue(store, call[t].task.queue)
               /\ UNCHANGED rqFails
    /\ pc' = [pc EXCEPT ![t] = "add"]
    /\ UNCHANGED <<tasks, queues, uuidCounter, now, call, result, last, ncalls,
                   deferCalls, deferOks, omittedLocks, lastReg>>

\* A register that marks the queue known although the store call raised, so
\* that no later register asks the store again.
RegisterProvisionWith_RemembersFailure(t, mayFail) ==
    /\ pc[t] = "provision"
    /\ rqCalls' = [rqCalls EXCEPT ![call[t].task.queue] = @ + 1]
    /\ \E fail \in IF mayFail THEN BOOLEAN ELSE {FALSE} :
          IF fail
          THEN /\ rqFails' = [rqFails EXCEPT ![call[t].task.queue] = @ + 1]
               /\ pc' = [pc EXCEPT ![t] = "idle"]
               /\ result' = [result EXCEPT ![t] = Raised(StoreError)]
               /\ queues' = queues \cup {call[t].task.queue}
               /\ UNCHANGED store
          ELSE /\ store' = JobStore_register_queue(store, call[t].task.queue)
               /\ pc' = [pc EXCEPT ![t] = "add"]
               /\ UNCHANGED <<rqFails, result, queues>>
    /\ UNCHANGED <<tasks, uuidCounter, now, call, last, ncalls,
                   deferCalls, deferOks, omittedLocks, lastReg>>

\* A register that undoes its write to tasks when the store call raises.
RegisterProvisionWith_RollsBack(t, mayFail) ==
    /\ pc[t] = "provision"
    /\ rqCalls' = [rqCalls EXCEPT ![call[t].task.queue] = @ + 1]
    /\ \E fail \in IF mayFail THEN BOOLEAN ELSE {FALSE} :
          IF fail
          THEN /\ rqFails' = [rqFails EXCEPT ![call[t].task.queue] = @ + 1]
               /\ pc' = [pc EXCEPT ![t] = "idle"]
               /\ result' = [result EXCEPT ![t] = Raised(StoreError)]
               /\ tasks' = [n \in (DOMAIN tasks) \ {call[t].task.name} |->
                               tasks[n]]
               /\ UNCHANGED store
          ELSE /\ store' = JobStore_register_queue(store, call[t].task.queue)
               /\ pc' = [pc EXCEPT ![t] = "add"]
               /\ UNCHANGED <<rqFails, result, tasks>>
    /\ UNCHANGED <<queues, uuidCounter, now, call, last, ncalls,
                   deferCalls, deferOks, omittedLocks, lastReg>>

\* self.job_store.register_queue(task.queue): it returns, or (when the store
\* may fail) raises StoreError and the exception leaves register.
RegisterProvisionWith(t, mayFail) ==
    /\ pc[t] = "provision"
    /\ rqCalls' = [rqCalls EXCEPT ![call[t].task.queue] = @ + 1]
    /\ \E fail \in IF mayFail THEN BOOLEAN ELSE {FALSE} :
          IF fail
          THEN /\ rqFails' = [rqFails EXCEPT ![call[t].task.queue] = @ + 1]
               /\ pc' = [pc EXCEPT ![t] = "idle"]
               /\ result' = [result EXCEPT ![t] = Raised(StoreError)]
               /\ UNCHANGED store
          ELSE /\ store' = JobStore_register_queue(store, call[t].task.queue)
               /\ pc' = [pc EXCEPT ![t] = "add"]
               /\ UNCHANGED <<rqFails, result>>
    /\ UNCHANGED <<tasks, queues, uuidCounter, now, call, last, ncalls,
                   deferCalls, deferOks, omittedLocks, lastReg>>

\* register's store call, with a store that may fail at any call.
RegisterProvision(t) == RegisterProvisionWith(t, TRUE)

\* A register that replaces self.queues by the one queue it provisioned.
RegisterAdd_Overwrites(t) ==
    /\ pc[t] = "add"
    /\ queues' = {call[t].task.queue}
    /\ pc' = [pc EXCEPT ![t] = "idle"]
    /\ result' = [result EXCEPT ![t] = Returned(call[t])]
    /\ UNCHANGED <<tasks, store, uuidCounter, now, call, last, ncalls,
                   rqCalls, rqFails, deferCalls, deferOks, omittedLocks, lastReg>>

\* self.queues.add(task.queue), and register returns.
RegisterAdd(t) ==
    /\ pc[t] = "add"
    /\ queues' = queues \cup {call[t].task.queue}
    /\ pc' = [pc EXCEPT ![t] = "idle"]
    /\ result' = [result EXCEPT ![t] = Returned(call[t])]
    /\ UNCHANGED <<tasks, store, uuidCounter, now, call, last, ncalls,
                   rqCalls, rqFails, deferCalls, deferOks, omittedLocks, lastReg>>

\* ------------------------------------------------------ Task operations ----
\* configure and defer touch neither tasks nor queues and make at most one
\* store call, so each is one step, whichever thread calls it.

\* task.configure(lock=, task_kwargs=, schedule_at=, schedule_in=)
Configure ==
    /\ ncalls < MaxCalls
    /\ \E task \in ConfigureTasks, lock \in LockArgs, kw \in KwargsArgs,
          sat \in ScheduleAtArgs, sin \in ScheduleInArgs :
          LET r == Task_configure(task, lock, kw, sat, sin, now, uuidCounter) IN
          /\ last' = [op |-> "configure", task |-> task, lock |-> lock,
                      task_kwargs |-> kw, schedule_at |-> sat,
                      schedule_in |-> sin, at |-> now,
                      res |-> IF r.kind = "job"
                              THEN [kind |-> "job", job |-> r.job]
                              ELSE Raised(r.exc)]
          /\ uuidCounter' = IF r.drew THEN uuidCounter + 1 ELSE uuidCounter
          /\ omittedLocks' = IF r.kind = "job" /\ lock = None
                             THEN Append(omittedLocks, r.job.lock)
                             ELSE omittedLocks
    /\ ncalls' = ncalls + 1
    /\ UNCHANGED <<tasks, queues, store, now, pc, call, result,
                   rqCalls, rqFails, deferCalls, deferOks, lastReg>>

\* task.defer(**task_kwargs)
Defer ==
    /\ ncalls < MaxCalls
    /\ \E task \in DeferTasks, kw \in KwargsValues, fail \in DeferFailures :
          LET r == Task_defer(task, kw, now, uuidCounter, store, fail) IN
          /\ last' = [op |-> "defer", task |-> task, task_kwargs |-> kw,
                      fail |-> fail, res |-> r.res]
          /\ store' = r.st
          /\ deferCalls' = deferCalls + r.calls
          /\ deferOks' = IF r.res.kind = "id" THEN deferOks + 1 ELSE deferOks
          /\ omittedLocks' = Append(omittedLocks, r.job.lock)
    /\ uuidCounter' = uuidCounter + 1
    /\ ncalls' = ncalls + 1
    /\ UNCHANGED <<tasks, queues, now, pc, call, result, rqCalls, rqFails,
                   lastReg>>

\* job.defer(**task_kwargs) on the Job the latest configure returned.
JobDefer ==
    /\ ncalls < MaxCalls
    /\ last.res.kind = "job"
    /\ \E kw \in KwargsValues, fail \in DeferFailures :
          LET r == Job_defer(last.res.job, kw, store, fail) IN
          /\ last' = [op |-> "job_defer", job |-> last.res.job,
                      task_kwargs |-> kw, fail |-> fail, res |-> r.res]
          /\ store' = r.st
          /\ deferCalls' = deferCalls + r.calls
          /\ deferOks' = IF r.res.kind = "id" THEN deferOks + 1 ELSE deferOks
    /\ ncalls' = ncalls + 1
    /\ UNCHANGED <<tasks, queues, uuidCounter, now, pc, call, result,
                   rqCalls, rqFails, omittedLocks, lastReg>>

\* task(**kwargs) on a registered task.
DirectCall ==
    /\ ncalls < MaxCalls
    /\ \E n \in DOMAIN tasks, kw \in KwargsValues, outcome \in WorkOutcomes :
          LET r == Task_call(tasks[n], kw, outcome) IN
          last' = [op |-> "call", task |-> tasks[n], kwargs |-> kw,
                   outcome |-> outcome, invoked |-> r.invoked, res |-> r.res]
    /\ ncalls' = ncalls + 1
    /\ UNCHANGED <<tasks, queues, store, uuidCounter, now, pc, call, result,
                   rqCalls, rqFails, deferCalls, deferOks, omittedLocks, lastReg>>

\* ------------------------------------------------------ specifications ----
\* Concurrent callers of one manager.
Init == InitFor(Threads)

Next ==
    \/ Tick
    \/ \E t \in Threads : RegisterCall(t)
    \/ \E t \in Threads : TaskCall(t)
    \/ \E t \in Threads : TaskCapture(t)
    \/ \E t \in Threads : WrapCall(t)
    \/ \E t \in Threads : RegisterCheck(t)
    \/ \E t \in Threads : RegisterProvision(t)
    \/ \E t \in Threads : RegisterAdd(t)
    \/ Configure
    \/ Defer
    \/ JobDefer
    \/ DirectCall

Spec == Init /\ [][Next]_vars

\* One caller: the operations run one after another.
SeqInit == InitFor(SeqThreads)

SeqNext ==
    \/ Tick
    \/ \E t \in SeqThreads : RegisterCall(t)
    \/ \E t \in SeqThreads : TaskCapture(t)
    \/ \E t \in SeqThreads : WrapCall(t)
    \/ \E t \in SeqThreads : TaskCall(t)
    \/ \E t \in SeqThreads : RegisterCheck(t)
    \/ \E t \in SeqThreads : RegisterProvision(t)
    \/ \E t \in SeqThreads : RegisterAdd(t)
    \/ Configure
    \/ Defer
    \/ JobDefer
    \/ DirectCall

SeqSpec == SeqInit /\ [][SeqNext]_vars

\* Registrations that go on for ever, with a store that fails to provision a
\* queue at most MaxFails times. A call that has started runs on (weak
\* fairness of its steps), and registrations naming each queue keep being
\* attempted (strong fairness of the calls naming it).
LiveRegisterNaming(t, q) ==
    /\ \E task \in RegisterTasks :
          /\ task.queue = q
          /\ RegisterWrite(t, [op |-> "register", task |-> task])
    /\ UNCHANGED ncalls

LiveRegisterCall(t) == \E q \in Queues : LiveRegisterNaming(t, q)

LiveRegisterProvision(t) ==
    RegisterProvisionWith(t, rqFails[call[t].task.queue] < MaxFails)

LiveStep(t) ==
    RegisterCheck(t) \/ LiveRegisterProvision(t) \/ RegisterAdd(t)

LiveInit == InitFor(Threads)

LiveNext ==
    \/ \E t \in Threads : LiveRegisterCall(t)
    \/ \E t \in Threads : RegisterCheck(t)
    \/ \E t \in Threads : LiveRegisterProvision(t)
    \/ \E t \in Threads : RegisterAdd(t)

LiveSpec ==
    /\ LiveInit
    /\ [][LiveNext]_vars
    /\ \A t \in Threads : WF_vars(LiveStep(t))
    /\ \A q \in Queues : SF_vars(\E t \in Threads : LiveRegisterNaming(t, q))

\* -------------------------------------------------------------- claims ----
NoRegisterQueueFailure == \A q \in Queues : rqFails[q] = 0
AllIdle == \A t \in DOMAIN pc : pc[t] = "idle"

\* A thread has written tasks and has not yet left register.
InSection(t) == pc[t] \in {"check", "provision", "add"}

\* The step is thread t's register_queue call, and the call raises.
ProvisionFails(t) ==
    pc[t] = "provision" /\ pc'[t] # "provision" /\ rqFails' # rqFails

\* The step is a whole task.defer call: it is the one operation that always
\* draws a token and leaves a defer record.
DeferStep == uuidCounter' = uuidCounter + 1 /\ last'.op = "defer"

RECURSIVE JobCount(_)
JobCount(Q) ==
    IF Q = {} THEN 0
    ELSE LET q == CHOOSE x \in Q : TRUE
         IN  Len(store.jobs[q]) + JobCount(Q \ {q})

\* C1: with one caller and a store whose register_queue never fails, the store
\* receives at most one register_queue call per queue name; once the caller is
\* back from register, the queues that received one are exactly the known
\* queues, and every registered task's queue received exactly one.
C1_OneRegisterQueuePerQueue ==
    NoRegisterQueueFailure =>
        /\ \A q \in Queues : rqCalls[q] <= 1
        /\ AllIdle =>
              /\ \A q \in Queues : (rqCalls[q] = 1) <=> (q \in queues)
              /\ \A n \in DOMAIN tasks : rqCalls[tasks[n].queue] = 1

\* Two tasks with different names registered on the same queue, one store call.
C1_Witness ==
    /\ AllIdle /\ NoRegisterQueueFailure
    /\ Cardinality(DOMAIN tasks) = 2
    /\ \A n \in DOMAIN tasks : tasks[n].queue = "default"
    /\ rqCalls["default"] = 1
    /\ ncalls = 2

\* C2: when register_queue raises inside register(task), register ends with
\* that error, task.queue is not in queues, and task is in tasks under
\* task.name.
C2_FailedProvisioningKeepsTask ==
    [][\A t \in DOMAIN pc :
          ProvisionFails(t) =>
              /\ pc'[t] = "idle"
              /\ result'[t].kind = "raised"
              /\ result'[t].exc = StoreError
              /\ queues' = queues
              /\ call[t].task.queue \notin queues'
              /\ call[t].task.name \in DOMAIN tasks'
              /\ tasks'[call[t].task.name] = call[t].task]_vars

\* register has raised StoreError, the task is registered, its queue unknown.
C2_Witness ==
    \E t \in DOMAIN pc :
        /\ pc[t] = "idle"
        /\ result[t].kind = "raised"
        /\ result[t].exc = StoreError
        /\ call[t].task.name \in DOMAIN tasks
        /\ call[t].task.queue \notin queues
        /\ rqFails[call[t].task.queue] = 1

\* C3: no two register calls on the manager are at the same time between their
\* write to tasks and their return.
C3_RegisterMutualExclusion ==
    \A t1, t2 \in DOMAIN pc : (InSection(t1) /\ InSection(t2)) => t1 = t2

\* C4: with a store that does not fail, the store receives at most one
\* register_queue call per queue name under every interleaving of register
\* calls.
C4_OneProvisioningUnderInterleaving ==
    NoRegisterQueueFailure => \A q \in Queues : rqCalls[q] <= 1

\* C5: tasks holds, under each name, the task of the most recent register call
\* with that name, whose name is that name; no register call raises anything
\* but the store's error.
C5_LastRegistrationWins ==
    /\ DOMAIN tasks = DOMAIN lastReg
    /\ \A n \in DOMAIN tasks : tasks[n] = lastReg[n] /\ tasks[n].name = n
    /\ \A t \in DOMAIN result :
          result[t].kind = "raised" => result[t].exc = StoreError

\* One name registered twice, on "default" and then on "queue".
C5_Witness ==
    /\ AllIdle
    /\ ncalls = 2
    /\ DOMAIN tasks = {"task_func"}
    /\ tasks["task_func"].queue = "queue"
    /\ queues = {"default", "queue"}

\* C6: a configure call given both schedule_at and schedule_in raises
\* InvalidConfiguration and returns no Job, whatever the two values.
C6_BothSchedulesRejected ==
    (last.op = "configure" /\ last.schedule_at # None /\ last.schedule_in # None)
        => (last.res.kind = "raised" /\ last.res.exc = InvalidConfiguration)

\* configure(schedule_at=..., schedule_in={}) has raised.
C6_Witness ==
    /\ last.op = "configure"
    /\ last.schedule_at # None
    /\ last.schedule_in = Some(EmptyDict)
    /\ last.res.kind = "raised"

\* C7: every task.defer(**kwargs) makes exactly one defer call to the store;
\* when the task's queue exists in the store and the backend does not fail, the
\* call returns the integer id the store assigned and the store's jobs change
\* only by one job appended to task.queue, with that id, task_kwargs = kwargs,
\* task_name = task.name and queue = task.queue; the store holds as many jobs
\* as defer calls have succeeded.
C7_DeferStoresOneJob ==
    /\ [](JobCount(DOMAIN store.jobs) = deferOks)
    /\ [][DeferStep =>
            /\ deferCalls' = deferCalls + 1
            /\ (last'.task.queue \in DOMAIN store.jobs /\ last'.fail = None) =>
                  LET q == last'.task.queue
                      n == Len(store.jobs[q])
                  IN  /\ last'.res.kind = "id"
                      /\ last'.res.id \in Nat
                      /\ DOMAIN store'.jobs = DOMAIN store.jobs
                      /\ \A x \in DOMAIN store.jobs \ {q} :
                            store'.jobs[x] = store.jobs[x]
                      /\ Len(store'.jobs[q]) = n + 1
                      /\ SubSeq(store'.jobs[q], 1, n) = store.jobs[q]
                      /\ store'.jobs[q][n + 1].id = Some(last'.res.id)
                      /\ store'.jobs[q][n + 1].task_kwargs = last'.task_kwargs
                      /\ store'.jobs[q][n + 1].task_name = last'.task.name
                      /\ store'.jobs[q][n + 1].queue = q]_vars

\* Two defer calls have succeeded, the latest with c=3.
C7_Witness ==
    /\ last.op = "defer"
    /\ last.res.kind = "id"
    /\ last.task_kwargs = [k \in {"c"} |-> 3]
    /\ deferOks = 2
    /\ JobCount(DOMAIN store.jobs) = 2

\* C8: a task.defer whose store call raises ends with that error after exactly
\* one store call and leaves tasks, queues and the store's jobs unchanged; an
\* error of the backend is never turned into a result; a register whose
\* register_queue call raises ends with StoreError after that one call.
C8_StoreErrorsPassThrough ==
    [][/\ (DeferStep /\ last'.res.kind = "raised") =>
              /\ deferCalls' = deferCalls + 1
              /\ last'.res.exc =
                    IF last'.fail # None THEN Val(last'.fail) ELSE StoreError
              /\ UNCHANGED <<tasks, queues, store>>
       /\ (DeferStep /\ last'.fail # None) => last'.res.kind = "raised"
       /\ \A t \in DOMAIN pc :
             ProvisionFails(t) =>
                 /\ rqCalls' = [rqCalls EXCEPT ![call[t].task.queue] = @ + 1]
                 /\ pc'[t] = "idle"
                 /\ result'[t].kind = "raised"
                 /\ result'[t].exc = StoreError]_vars

\* task.defer has raised the store's DuplicateLockError after one store call.
C8_Witness ==
    /\ last.op = "defer"
    /\ last.res.kind = "raised"
    /\ last.res.exc = DuplicateLockError
    /\ deferCalls = 1

\* C9: the lock of every Job configure returns, and of every job in the store,
\* is a non-empty string.
C9_LockNeverEmpty ==
    /\ last.res.kind = "job" => Len(last.res.job.lock) > 0
    /\ \A q \in DOMAIN store.jobs :
          \A i \in 1..Len(store.jobs[q]) : Len(store.jobs[q][i].lock) > 0

\* configure(lock="") has returned a Job.
C9_Witness ==
    /\ last.op = "configure"
    /\ last.lock = Some("")
    /\ last.res.kind = "job"

\* C10: the locks of the Jobs built by configure calls that omit lock, those
\* made inside defer included, are pairwise different.
C10_OmittedLocksDiffer ==
    \A i, j \in 1..Len(omittedLocks) :
        i # j => omittedLocks[i] # omittedLocks[j]

\* A defer and then a configure without lock.
C10_Witness ==
    /\ last.op = "configure"
    /\ last.lock = None
    /\ last.res.kind = "job"
    /\ deferCalls = 1
    /\ Len(omittedLocks) = 2

\* The step is a whole task.configure call.
ConfigureStep ==
    ncalls' = ncalls + 1 /\ UNCHANGED <<pc, call, result>> /\ last'.op = "configure"

\* The step is a whole direct call task(**kwargs).
DirectCallStep ==
    ncalls' = ncalls + 1 /\ UNCHANGED <<pc, call, result>> /\ last'.op = "call"

\* The step is thread t's task(queue=, name=) call without a function.
CaptureStep(t) ==
    /\ call'[t].op = "task_capture"
    /\ (call'[t] # call[t] \/ result'[t] # result[t])

\* The step is the first statement of the register call made by thread t's
\* task(...) call, in either form.
TaskWriteStep(t) == pc[t] = "idle" /\ pc'[t] = "check" /\ call'[t].op = "task"

\* The Task that task() is to build from the arguments recorded in c.
ExpectedTask(c) ==
    [func |-> c.func,
     queue |-> IF c.queue = None THEN "default" ELSE Val(c.queue),
     name |-> IF c.name = None \/ c.name = Some("")
              THEN FuncName(c.func) ELSE Val(c.name)]

\* C11 as stated: the Job of a configure call carries every supplied lock
\* string and every supplied task_kwargs mapping unchanged, and the empty
\* mapping when task_kwargs is omitted.
C11_SuppliedValuesKept ==
    (last.op = "configure" /\ last.res.kind = "job") =>
        /\ last.lock # None => last.res.job.lock = Val(last.lock)
        /\ last.task_kwargs # None =>
              last.res.job.task_kwargs = Val(last.task_kwargs)
        /\ last.task_kwargs = None => last.res.job.task_kwargs = EmptyDict

\* C11 amended: the Job of a configure call carries every supplied non-empty
\* lock string and every supplied task_kwargs mapping unchanged, and the empty
\* mapping when task_kwargs is omitted.
C11_NonEmptyLockKept ==
    (last.op = "configure" /\ last.res.kind = "job") =>
        /\ (last.lock # None /\ Val(last.lock) # "") =>
              last.res.job.lock = Val(last.lock)
        /\ last.task_kwargs # None =>
              last.res.job.task_kwargs = Val(last.task_kwargs)
        /\ last.task_kwargs = None => last.res.job.task_kwargs = EmptyDict

\* configure(lock="sher", task_kwargs={"yay": 1}) has returned a Job.
C11_Witness ==
    /\ last.op = "configure"
    /\ last.lock = Some("sher")
    /\ last.task_kwargs = Some([k \in {"yay"} |-> 1])
    /\ last.res.kind = "job"
    /\ last.res.job.lock = "sher"

\* C12: the scheduled_at of the Job of a configure call is the clock at the
\* call plus the hours of schedule_in when only schedule_in is given (whatever
\* the clock reads later), the given schedule_at when only schedule_at is
\* given, and absent when neither is given; the job a later job.defer stores
\* has the scheduled_at of the Job configure returned.
C12_ScheduledAtResolution ==
    /\ (last.op = "configure" /\ last.res.kind = "job") =>
          /\ (last.schedule_at = None /\ last.schedule_in # None) =>
                last.res.job.scheduled_at =
                    Some(last.at + IF "hours" \in DOMAIN Val(last.schedule_in)
                                   THEN Val(last.schedule_in)["hours"] ELSE 0)
          /\ (last.schedule_at # None /\ last.schedule_in = None) =>
                last.res.job.scheduled_at = last.schedule_at
          /\ (last.schedule_at = None /\ last.schedule_in = None) =>
                last.res.job.scheduled_at = None
    /\ (last.op = "job_defer" /\ last.res.kind = "id") =>
          \E i \in 1..Len(store.jobs[last.job.queue]) :
              /\ store.jobs[last.job.queue][i].id = Some(last.res.id)
              /\ store.jobs[last.job.queue][i].scheduled_at =
                    last.job.scheduled_at

\* configure(schedule_in={"hours": 2}) was called at hour 0, the clock now
\* reads 1, and the Job is scheduled at hour 2.
C12_Witness ==
    /\ last.op = "configure"
    /\ last.schedule_at = None
    /\ last.schedule_in = Some([k \in {"hours"} |-> 2])
    /\ last.at = 0
    /\ now = 1
    /\ last.res.kind = "job"
    /\ last.res.job.scheduled_at = Some(2)

\* C13: a configure call makes no store call and leaves the store and the
\* manager's tasks and queues unchanged, whether it raises or returns; the Job
\* it returns has no id, the task's name and queue, and the manager's store.
C13_ConfigureOnlyBuilds ==
    [][ConfigureStep =>
          /\ UNCHANGED <<tasks, queues, store, rqCalls, rqFails, deferCalls,
                         deferOks>>
          /\ last'.res.kind = "job" =>
                /\ last'.res.job.id = None
                /\ last'.res.job.task_name = last'.task.name
                /\ last'.res.job.queue = last'.task.queue
                /\ last'.res.job.job_store = TheStore]_vars

\* configure has returned a Job while the store holds a job and a queue is
\* known.
C13_Witness ==
    /\ last.op = "configure"
    /\ last.res.kind = "job"
    /\ last.res.job.queue = "queue"
    /\ queues = {"queue"}
    /\ ncalls = 2

\* C14: a direct call of a registered task invokes its work unit once with the
\* call's keyword arguments, gives the caller what the work unit returned or
\* raised, makes no store call and leaves the store and the manager's tasks
\* and queues unchanged.
C14_DirectCallForwards ==
    [][DirectCallStep =>
          /\ last'.invoked =
                <<[func |-> last'.task.func, kwargs |-> last'.kwargs]>>
          /\ last'.res.kind = last'.outcome.kind
          /\ last'.res = last'.outcome
          /\ UNCHANGED <<tasks, queues, store, rqCalls, rqFails, deferCalls,
                         deferOks>>]_vars

\* A registered task called with c=3 has returned its work unit's value.
C14_Witness ==
    /\ last.op = "call"
    /\ last.kwargs = [k \in {"c"} |-> 3]
    /\ last.res.kind = "value"
    /\ last.res.value = "foo"
    /\ last.task.name \in DOMAIN tasks

\* C15: task(f, queue=q, name=n) and task(queue=q, name=n)(f) register the
\* same Task, the one built from f, q (or "default") and n (or f's name), by
\* the same write to tasks, and return it; the capture step of the two-step
\* form changes neither the manager nor the store and makes no store call.
C15_TwoFormsAgree ==
    /\ [](\A t \in DOMAIN pc :
             /\ call[t].op = "task" => call[t].task = ExpectedTask(call[t])
             /\ result[t].kind = "task" => result[t].task = call[t].task)
    /\ [][\A t \in DOMAIN pc :
             /\ TaskWriteStep(t) =>
                   /\ tasks' = [n \in (DOMAIN tasks)
                                      \cup {ExpectedTask(call'[t]).name} |->
                                   IF n = ExpectedTask(call'[t]).name
                                   THEN ExpectedTask(call'[t]) ELSE tasks[n]]
                   /\ UNCHANGED <<queues, store, rqCalls, rqFails>>
             /\ CaptureStep(t) =>
                   UNCHANGED <<tasks, queues, store, rqCalls, rqFails,
                               deferCalls, pc>>]_vars

\* The two-step form task(name="bla")(task_func) has returned the registered
\* Task.
C15_Witness ==
    \E t \in DOMAIN pc :
        /\ call[t].op = "task"
        /\ call[t].form = "two-step"
        /\ call[t].name = Some("bla")
        /\ result[t].kind = "task"
        /\ "bla" \in DOMAIN tasks
        /\ tasks["bla"] = result[t].task

\* C16 as stated: the Task built by task() has the function's name when no
\* name is given and the given name when one is given, whatever it is; without
\* queue it is bound to "default"; it is registered under its name.
C16_ExplicitNameKept ==
    \A t \in DOMAIN pc :
        call[t].op = "task" =>
            /\ call[t].name = None => call[t].task.name = FuncName(call[t].func)
            /\ call[t].name # None => call[t].task.name = Val(call[t].name)
            /\ call[t].queue = None => call[t].task.queue = "default"
            /\ call[t].task.name \in DOMAIN tasks
            /\ tasks[call[t].task.name] = call[t].task

\* C16 amended: the Task built by task() has the function's name when no name
\* is given and the given name when a non-empty name is given; without queue
\* it is bound to "default"; it is registered under its name.
C16_NonEmptyNameKept ==
    \A t \in DOMAIN pc :
        call[t].op = "task" =>
            /\ call[t].name = None => call[t].task.name = FuncName(call[t].func)
            /\ (call[t].name # None /\ Val(call[t].name) # "") =>
                  call[t].task.name = Val(call[t].name)
            /\ call[t].queue = None => call[t].task.queue = "default"
            /\ call[t].task.name \in DOMAIN tasks
            /\ tasks[call[t].task.name] = call[t].task

\* task(task_func, name="bla") has registered the Task "bla" on "default".
C16_Witness ==
    \E t \in DOMAIN pc :
        /\ call[t].op = "task"
        /\ call[t].name = Some("bla")
        /\ call[t].queue = None
        /\ result[t].kind = "task"
        /\ result[t].task.name = "bla"
        /\ result[t].task.queue = "default"

\* C17: no step removes a queue name from queues or a key from tasks; tasks
\* changes only in the first statement of a register call and queues only in
\* its last.
C17_NoRollback ==
    [][/\ queues \subseteq queues'
       /\ DOMAIN tasks \subseteq DOMAIN tasks'
       /\ tasks' # tasks => \E t \in DOMAIN pc : pc[t] = "idle" /\ pc'[t] = "check"
       /\ queues' # queues => \E t \in DOMAIN pc : pc[t] = "add" /\ pc'[t] = "idle"
      ]_vars

\* A register has failed in the store, its task is still in tasks, and the
\* queue known before is still known.
C17_Witness ==
    \E t \in DOMAIN pc :
        /\ result[t].kind = "raised"
        /\ call[t].task.name \in DOMAIN tasks
        /\ call[t].task.queue = "queue"
        /\ queues = {"default"}
        /\ Cardinality(DOMAIN tasks) = 2

\* C18: every queue name in queues has had a register_queue call return
\* successfully: more calls were made for it than failed.
C18_KnownQueuesWereProvisioned ==
    \A q \in queues : rqCalls[q] > rqFails[q]

\* A queue is known after a failed and a successful provisioning of it.
C18_Witness ==
    \E q \in queues : rqFails[q] = 1 /\ rqCalls[q] = 2

\* C19: once register_queue has failed for a queue, the queue eventually is
\* and stays known, by a register_queue call that succeeded.
C19_FailedProvisioningRetried ==
    \A q \in Queues :
        (rqFails[q] >= 1) ~> [](q \in queues /\ rqCalls[q] > rqFails[q])

\* A provisioning of "queue" failed, the next register naming it called the
\* store again, and the queue is known.
C19_Witness ==
    /\ AllIdle
    /\ rqFails["queue"] = 1
    /\ rqCalls["queue"] = 2
    /\ "queue" \in queues

\* C20: when no register_queue call has failed and no register call is in
\* progress, tasks holds under every registered name the task of the latest
\* register call with that name, and every task in tasks has its queue in
\* queues.
C20_NoRegistrationLost ==
    (NoRegisterQueueFailure /\ AllIdle) =>
        /\ DOMAIN tasks = DOMAIN lastReg
        /\ \A n \in DOMAIN tasks :
              tasks[n] = lastReg[n] /\ tasks[n].queue \in queues

\* Two register calls with different names and different queues have both
\* returned after running at the same time.
C20_Witness ==
    /\ NoRegisterQueueFailure /\ AllIdle
    /\ Cardinality(DOMAIN tasks) = 2
    /\ queues = {"default", "queue"}
    /\ \A t \in DOMAIN pc : call[t].op = "register"

====
